---- MODULE Spec2Model ----
(***************************************************************************)
(* Model of sample_supabase_agent.py: one HTTP endpoint that verifies a    *)
(* bearer token, reads the recent messages of a session from the           *)
(* "messages" table, stores the user's turn, calls a chat-completion API,  *)
(* stores the assistant's turn (or an apology turn on any failure) and     *)
(* answers {success: bool}.                                                *)
(*                                                                         *)
(* Texts that are only compared for equality (queries, ids, contents) are  *)
(* TLA+ strings.  Exception texts are sequences of text fragments, so that *)
(* f-string concatenation and "contains" are computed, not assumed.        *)
(* The store is an external service: a successful insert adds exactly one  *)
(* row with a fresh created_at, a failed operation changes nothing.        *)
(***************************************************************************)
EXTENDS Integers, Sequences, FiniteSets, TLC

\* ------------------------------------------------------------------ bounds
MaxRequests == 2          \* number of requests received in one behaviour
MaxRows     == 4          \* rows in the table, history-reader specification
MaxLimit    == 2          \* explicit limits tried by the history-reader specification

\* ------------------------------------------------------- program constants
DefaultLimit == 10        \* fetch_conversation_history(limit=10)

\* the requests in flight at one time: each name is one call of the
\* endpoint, and is taken again by a later request once the call has returned
Procs == {"A", "B"}

ApologyText == "I apologize, but I encountered an error processing your request."

\* ------------------------------------------------------------ input values
Sessions == {"s1", "s2"}

\* AgentRequest bodies (user_id is never read by the handler).  The handler
\* copies these strings and compares only session ids, so what matters is how
\* the bodies of two requests relate: the first request received carries
\* FirstBody, a later one carries the same body, another query and request_id
\* on the same session, or the same query and request_id on another session.
FirstBody == [query |-> "q1", request_id |-> "r1", session_id |-> "s1"]
Bodies ==
  { FirstBody,
    [query |-> "q2", request_id |-> "r2", session_id |-> "s1"],
    [query |-> "q1", request_id |-> "r1", session_id |-> "s2"] }

\* Authorization header: absent, or "Bearer <token>"
NoHeader == [present |-> FALSE, credentials |-> ""]
Headers ==
  { NoHeader,
    [present |-> TRUE, credentials |-> "tok"],
    [present |-> TRUE, credentials |-> "bad"] }

\* os.getenv("API_BEARER_TOKEN"): None, "" or a token
EnvTokens ==
  { [set |-> FALSE, val |-> ""],
    [set |-> TRUE,  val |-> ""],
    [set |-> TRUE,  val |-> "tok"] }

\* ------------------------------------------------------------------- texts
\* str(e) of the store client's exception
StoreFault == <<"store unavailable">>
\* str(e) of requests.exceptions.ConnectionError / HTTPError
NetworkFault == <<"connection failed">>
StatusFault  == <<"503 Server Error">>
\* str(IndexError) raised by [][0]
IndexFault == <<"list index out of range">>

\* s occurs in t as a contiguous run of fragments
Contains(t, s) ==
  \E i \in 0..(Len(t) - Len(s)) : SubSeq(t, i + 1, i + Len(s)) = s

\* HTTPException(status_code, detail) as an exception value
HTTPException(status_code, detail) ==
  [class |-> "HTTPException", status_code |-> status_code, detail |-> detail]

\* any other exception, carrying its message
OtherException(class, text) ==
  [class |-> class, status_code |-> 0, detail |-> text]

NoException == [class |-> "", status_code |-> 0, detail |-> <<>>]

\* str(e): HTTPException prints "<status>: <detail>", others their message
Str(e) ==
  IF e.class = "HTTPException"
    THEN <<ToString(e.status_code), ": ">> \o e.detail
    ELSE e.detail

\* ------------------------------------------------------------ token verifier
\* verify_token without the comparison of the credential
verify_token_unchecked(expected_token, credentials) ==
  IF (~expected_token.set) \/ expected_token.val = ""
    THEN 500
    ELSE 0

\* verify_token testing `is None` instead of `not expected_token`
verify_token_isnone(expected_token, credentials) ==
  IF ~expected_token.set
    THEN 500
    ELSE IF credentials # expected_token.val
      THEN 401
      ELSE 0

\* verify_token applied to the presented credential: 0 = returns True,
\* otherwise the status code of the HTTPException it raises
verify_token(expected_token, credentials) ==
  IF (~expected_token.set) \/ expected_token.val = ""
    THEN 500
    ELSE IF credentials # expected_token.val
      THEN 401
      ELSE 0

\* ------------------------------------------------------------------- store
\* Optional[Dict] argument of store_message
NoData == [none |-> TRUE, keys |-> {}, error |-> <<>>, request_id |-> ""]
\* the assistant turn stored without its data
AiData_none(request_id) ==
  [none |-> TRUE, keys |-> {}, error |-> <<>>, request_id |-> ""]

\* {"request_id": request.request_id}
AiData(request_id) ==
  [none |-> FALSE, keys |-> {"request_id"}, error |-> <<>>, request_id |-> request_id]
\* the apology turn stored without the error text
ErrorData_noerror(e, request_id) ==
  [none |-> FALSE, keys |-> {"request_id"}, error |-> <<>>, request_id |-> request_id]

\* {"error": str(e), "request_id": request.request_id}
ErrorData(e, request_id) ==
  [none |-> FALSE, keys |-> {"error", "request_id"}, error |-> Str(e),
   request_id |-> request_id]

\* created_at the store assigns to the next inserted row
NextCreatedAt(t) ==
  IF t = {} THEN 1
  ELSE 1 + (CHOOSE n \in {r.created_at : r \in t} :
              \A m \in {r.created_at : r \in t} : m <= n)

\* store_message as an upsert keyed by session and type
store_message_upsert(t, session_id, message_type, content, data) ==
  LET truthy == (~data.none) /\ data.keys # {}
      message_obj == [type |-> message_type, content |-> content,
                      has_data |-> truthy,
                      data |-> IF truthy THEN data ELSE NoData]
      kept == {r \in t : ~(r.session_id = session_id /\ r.message.type = message_type)}
  IN  kept \cup { [created_at |-> NextCreatedAt(t), session_id |-> session_id,
                  message |-> message_obj] }

\* store_message skipping a row equal to a stored one
store_message_dedup(t, session_id, message_type, content, data) ==
  LET truthy == (~data.none) /\ data.keys # {}
      message_obj == [type |-> message_type, content |-> content,
                      has_data |-> truthy,
                      data |-> IF truthy THEN data ELSE NoData]
  IN  IF \E r \in t : r.session_id = session_id /\ r.message = message_obj
        THEN t
        ELSE t \cup { [created_at |-> NextCreatedAt(t), session_id |-> session_id,
                       message |-> message_obj] }

\* store_message filing every row under one fixed session
store_message_anysession(t, session_id, message_type, content, data) ==
  LET truthy == (~data.none) /\ data.keys # {}
      message_obj == [type |-> message_type, content |-> content,
                      has_data |-> truthy,
                      data |-> IF truthy THEN data ELSE NoData]
  IN  t \cup { [created_at |-> NextCreatedAt(t), session_id |-> "s1",
               message |-> message_obj] }

\* store_message, insert accepted: the table after the insert
store_message(t, session_id, message_type, content, data) ==
  LET truthy == (~data.none) /\ data.keys # {}
      message_obj == [type |-> message_type, content |-> content,
                      has_data |-> truthy,
                      data |-> IF truthy THEN data ELSE NoData]
  IN  t \cup { [created_at |-> NextCreatedAt(t), session_id |-> session_id,
               message |-> message_obj] }

\* store_message, insert refused: the exception raised
StoreMessageError ==
  HTTPException(500, <<"Failed to store message: ">> \o StoreFault)

\* .order("created_at", desc=True) over a set of rows: the i-th row is the
\* one with i - 1 newer rows (the store gives every row its own created_at)
OrderDesc(rows) ==
  [i \in 1..Cardinality(rows) |->
     CHOOSE r \in rows :
       Cardinality({o \in rows : o.created_at > r.created_at}) = i - 1]

\* .limit(n)
Limit(seq, n) == SubSeq(seq, 1, IF Len(seq) < n THEN Len(seq) ELSE n)

\* [::-1]
Reverse(seq) == [i \in 1..Len(seq) |-> seq[Len(seq) + 1 - i]]

\* fetch_conversation_history without the reversal
fetch_conversation_history_noreverse(t, session_id, limit) ==
  Limit(OrderDesc({r \in t : r.session_id = session_id}), limit)

\* fetch_conversation_history, select answered: the rows returned
fetch_conversation_history(t, session_id, limit) ==
  LET data == Limit(OrderDesc({r \in t : r.session_id = session_id}), limit)
  IN  Reverse(data)

\* fetch_conversation_history, select refused: the exception raised
FetchHistoryError ==
  HTTPException(500, <<"Failed to fetch conversation history: ">> \o StoreFault)

\* the handler's projection of the rows to role/content pairs
ConvertHistory(conversation_history) ==
  [i \in 1..Len(conversation_history) |->
     [role    |-> conversation_history[i].message.type,
      content |-> conversation_history[i].message.content]]

\* -------------------------------------------------------- completion client
\* one element of "choices": {"message": {"content": ...}}, keys optional
Choice(has_message, has_content, content) ==
  [has_message |-> has_message, has_content |-> has_content, content |-> content]

\* JSON bodies of a 2xx answer
ResponseBodies ==
  { [has_choices |-> TRUE,  choices |-> <<Choice(TRUE, TRUE, "m1")>>],
    [has_choices |-> FALSE, choices |-> <<>>],
    [has_choices |-> TRUE,  choices |-> <<>>],
    [has_choices |-> TRUE,  choices |-> <<Choice(FALSE, FALSE, "")>>],
    [has_choices |-> TRUE,  choices |-> <<Choice(TRUE, FALSE, "")>>] }

\* what requests.post / raise_for_status / json() can produce
CompletionOutcomes ==
  { [kind |-> "network_error", body |-> [has_choices |-> FALSE, choices |-> <<>>]],
    [kind |-> "http_error",    body |-> [has_choices |-> FALSE, choices |-> <<>>]] }
  \cup { [kind |-> "ok", body |-> b] : b \in ResponseBodies }

\* response_data.get("choices", [{}])[0].get("message", {}).get("content", "")
\* raised = TRUE when [0] is applied to an empty list (IndexError)
ExtractContent(response_data) ==
  LET choices == IF response_data.has_choices THEN response_data.choices
                 ELSE <<Choice(FALSE, FALSE, "")>>
  IN  IF Len(choices) = 0
        THEN [raised |-> TRUE, text |-> ""]
        ELSE LET first == choices[1]
                 has_content == first.has_message /\ first.has_content
             IN  [raised |-> FALSE,
                  text |-> IF has_content THEN first.content ELSE ""]

\* the completion call without raise_for_status(): an error status is parsed
CompletionException_nostatus(outcome) ==
  CASE outcome.kind = "network_error" -> HTTPException(500, NetworkFault)
    [] OTHER -> IF ExtractContent(outcome.body).raised
                  THEN OtherException("IndexError", IndexFault)
                  ELSE NoException

\* the inner try/except around the completion call: the exception that
\* leaves it (NoException when model_response is assigned)
CompletionException(outcome) ==
  CASE outcome.kind = "network_error" -> HTTPException(500, NetworkFault)
    [] outcome.kind = "http_error"    -> HTTPException(500, StatusFault)
    [] OTHER -> IF ExtractContent(outcome.body).raised
                  THEN OtherException("IndexError", IndexFault)
                  ELSE NoException

\* ----------------------------------------------------------------- handler
\* the user turn stored before the history is fetched
HandlerSteps_storefirst == <<"store_user", "fetch", "call_model", "store_ai">>

\* the statements of the try block, in program order
HandlerSteps == <<"fetch", "store_user", "call_model", "store_ai">>

\* the step that follows a completed step; "respond" after the last one
After(step) ==
  LET i == CHOOSE k \in 1..Len(HandlerSteps) : HandlerSteps[k] = step
  IN  IF i = Len(HandlerSteps) THEN "respond" ELSE HandlerSteps[i + 1]

NoResult == [kind |-> "none", success |-> FALSE, status_code |-> 0]
\* AgentResponse(success=...)
AgentResponse(success) == [kind |-> "response", success |-> success, status_code |-> 200]
\* an HTTPException that leaves the endpoint
HttpError(status_code) == [kind |-> "http_error", success |-> FALSE, status_code |-> status_code]

NoBody == [query |-> "", request_id |-> "", session_id |-> ""]

VARIABLES
  env_token,     \* os.getenv("API_BEARER_TOKEN")
  shared_loop,   \* TRUE: all requests are served by one event loop
  table,         \* the rows of the "messages" table
  req,           \* per request: position and locals of the handler
  served,        \* number of requests received so far
  hist           \* history-reader specification: last call and its result

vars == <<env_token, shared_loop, table, req, served, hist>>

\* pc: idle, auth, the steps of HandlerSteps, failed (in the except block),
\* done.  wrote and calls record what the call did: the created_at of the
\* rows its inserts added, and the store and completion calls it made with
\* their outcome.
InitRequest ==
  [pc |-> "idle", body |-> NoBody, header |-> NoHeader,
   conversation_history |-> <<>>, messages |-> <<>>,
   model_response |-> "", e |-> NoException, result |-> NoResult,
   running |-> FALSE, wrote |-> {}, calls |-> <<>>]

NoHist == [called |-> FALSE, session_id |-> "", limit |-> 0, result |-> <<>>]

Init ==
  /\ env_token \in EnvTokens
  /\ shared_loop \in BOOLEAN
  /\ table = {}
  /\ req = [p \in Procs |-> InitRequest]
  /\ served = 0
  /\ hist = NoHist

\* ------------------------------------------------------------------ actions
Session(p) == req[p].body.session_id

\* created_at of the rows an insert added
Added(t_before, t_after) == {r.created_at : r \in t_after \ t_before}

Call(op, ok) == [op |-> op, ok |-> ok]

\* a lock per session: a body waits while another request of its session runs
MayRun_sessionlock(p) ==
  \A q \in Procs \ {p} :
    ~(req[q].running /\ req[q].body.session_id = req[p].body.session_id)

\* A handler body contains no suspension point (the store and HTTP clients
\* block), so on one event loop a started body ends before another starts;
\* with several worker processes the bodies interleave step by step.
MayRun(p) ==
  shared_loop => \A q \in Procs \ {p} : ~req[q].running

\* the request after the endpoint returned or raised: the history it had
\* assembled is a local of the call and is gone
Returned(r, result) ==
  [r EXCEPT !.pc = "done", !.running = FALSE, !.result = result,
            !.conversation_history = <<>>, !.messages = <<>>]

\* the request after `step` completed normally
Completed(r, step) ==
  IF After(step) = "respond"
    THEN Returned(r, AgentResponse(TRUE))
    ELSE [r EXCEPT !.pc = After(step), !.running = TRUE]

\* the failed step tried again instead of leaving the try block
Raised_retry(r, e) == [r EXCEPT !.running = TRUE, !.e = e]

\* the request after an exception e left the try block
Raised(r, e) == [r EXCEPT !.pc = "failed", !.running = TRUE, !.e = e]

\* a request arrives while fewer than MaxRequests were received; it takes the
\* first free name, whose former call is forgotten
Arrive(p) ==
  /\ req[p].pc \in {"idle", "done"}
  /\ served < MaxRequests
  /\ p = "A" \/ req["A"].pc \notin {"idle", "done"}
  /\ served' = served + 1
  /\ \E body \in (IF served = 0 THEN {FirstBody} ELSE Bodies), header \in Headers :
       req' = [req EXCEPT ![p] = [InitRequest EXCEPT !.pc = "auth", !.body = body,
                                                     !.header = header]]
  /\ UNCHANGED <<env_token, shared_loop, table, hist>>

\* HTTPBearer refuses a request without bearer credentials (403)
BearerRejects(header) == ~header.present

\* Depends(verify_token): the security dependency, then verify_token
Authenticate(p) ==
  /\ req[p].pc = "auth"
  /\ \/ /\ BearerRejects(req[p].header)
        /\ req' = [req EXCEPT ![p] = [@ EXCEPT !.pc = "done",
                                                !.result = HttpError(403)]]
     \/ /\ ~BearerRejects(req[p].header)
        /\ LET status == verify_token(env_token, req[p].header.credentials)
           IN  req' = [req EXCEPT ![p] =
                 IF status = 0
                   THEN [@ EXCEPT !.pc = HandlerSteps[1]]
                   ELSE [@ EXCEPT !.pc = "done", !.result = HttpError(status)]]
  /\ UNCHANGED <<env_token, shared_loop, table, served, hist>>

\* conversation_history = await fetch_conversation_history(...); messages
FetchHistory(p) ==
  /\ req[p].pc = "fetch"
  /\ MayRun(p)
  /\ \/ LET rows == fetch_conversation_history(table, Session(p), DefaultLimit)
            r == [req[p] EXCEPT !.conversation_history = rows,
                                !.messages = ConvertHistory(rows),
                                !.calls = Append(@, Call("select", TRUE))]
        IN  req' = [req EXCEPT ![p] = Completed(r, "fetch")]
     \/ req' = [req EXCEPT ![p] =
          Raised([@ EXCEPT !.calls = Append(@, Call("select", FALSE))],
                 FetchHistoryError)]
  /\ UNCHANGED <<env_token, shared_loop, table, served, hist>>

\* await store_message(session_id, "human", request.query)
StoreUser(p) ==
  /\ req[p].pc = "store_user"
  /\ MayRun(p)
  /\ \/ LET t == store_message(table, Session(p), "human", req[p].body.query, NoData)
            r == [req[p] EXCEPT !.wrote = @ \cup Added(table, t),
                                !.calls = Append(@, Call("insert_human", TRUE))]
        IN  /\ table' = t
            /\ req' = [req EXCEPT ![p] = Completed(r, "store_user")]
     \/ /\ req' = [req EXCEPT ![p] =
             Raised([@ EXCEPT !.calls = Append(@, Call("insert_human", FALSE))],
                    StoreMessageError)]
        /\ UNCHANGED table
  /\ UNCHANGED <<env_token, shared_loop, served, hist>>

\* requests.post(...), raise_for_status(), json() and the content extraction
CallModel(p) ==
  /\ req[p].pc = "call_model"
  /\ MayRun(p)
  /\ \E outcome \in CompletionOutcomes :
       LET exc == CompletionException(outcome)
           r == [req[p] EXCEPT !.calls = Append(@, Call("post", outcome.kind = "ok"))]
       IN  req' = [req EXCEPT ![p] =
             IF exc = NoException
               THEN Completed([r EXCEPT !.model_response =
                                          ExtractContent(outcome.body).text],
                              "call_model")
               ELSE Raised(r, exc)]
  /\ UNCHANGED <<env_token, shared_loop, table, served, hist>>

\* await store_message(session_id, "ai", agent_response, {"request_id": ...})
StoreAi(p) ==
  /\ req[p].pc = "store_ai"
  /\ MayRun(p)
  /\ \/ LET agent_response == req[p].model_response
            t == store_message(table, Session(p), "ai", agent_response,
                               AiData(req[p].body.request_id))
            r == [req[p] EXCEPT !.wrote = @ \cup Added(table, t),
                                !.calls = Append(@, Call("insert_ai", TRUE))]
        IN  /\ table' = t
            /\ req' = [req EXCEPT ![p] = Completed(r, "store_ai")]
     \/ /\ req' = [req EXCEPT ![p] =
             Raised([@ EXCEPT !.calls = Append(@, Call("insert_ai", FALSE))],
                    StoreMessageError)]
        /\ UNCHANGED table
  /\ UNCHANGED <<env_token, shared_loop, served, hist>>

\* except Exception as e: store the apology turn, return success=False;
\* an exception raised by this store_message leaves the endpoint
StoreError(p) ==
  /\ req[p].pc = "failed"
  /\ MayRun(p)
  /\ \/ LET t == store_message(table, Session(p), "ai", ApologyText,
                               ErrorData(req[p].e, req[p].body.request_id))
        IN  /\ table' = t
            /\ req' = [req EXCEPT ![p] =
                 Returned([@ EXCEPT !.wrote = @ \cup Added(table, t),
                                    !.calls = Append(@, Call("insert_apology", TRUE))],
                          AgentResponse(FALSE))]
     \/ /\ req' = [req EXCEPT ![p] =
             Returned([@ EXCEPT !.calls = Append(@, Call("insert_apology", FALSE))],
                      HttpError(StoreMessageError.status_code))]
        /\ UNCHANGED table
  /\ UNCHANGED <<env_token, shared_loop, served, hist>>

Next ==
  \E p \in Procs :
    \/ Arrive(p)
    \/ Authenticate(p)
    \/ FetchHistory(p)
    \/ StoreUser(p)
    \/ CallModel(p)
    \/ StoreAi(p)
    \/ StoreError(p)

Spec == Init /\ [][Next]_vars

\* --------------------------------------- history reader on arbitrary tables
\* The same store operators, driven directly: any table of at most MaxRows
\* rows is built by inserts, and the reader is called with any session and
\* any limit in 0..MaxLimit or the default.
Limits == (0..MaxLimit) \cup {DefaultLimit}

InitHist ==
  /\ env_token = [set |-> TRUE, val |-> "tok"]
  /\ shared_loop = FALSE
  /\ table = {}
  /\ req = [p \in Procs |-> InitRequest]
  /\ served = 0
  /\ hist = NoHist

HistInsert ==
  /\ Cardinality(table) < MaxRows
  /\ \E session_id \in Sessions, message_type \in {"human", "ai"} :
       table' = IF message_type = "human"
                  THEN store_message(table, session_id, "human", "a", NoData)
                  ELSE store_message(table, session_id, "ai", "b", AiData("r1"))
  /\ UNCHANGED <<env_token, shared_loop, req, served, hist>>

HistFetch ==
  /\ \E session_id \in Sessions, limit \in Limits :
       hist' = [called |-> TRUE, session_id |-> session_id, limit |-> limit,
                result |-> fetch_conversation_history(table, session_id, limit)]
  /\ UNCHANGED <<env_token, shared_loop, table, req, served>>

NextHist == HistInsert \/ HistFetch

SpecHist == InitHist /\ [][NextHist]_vars

\* ------------------------------------------------------ vocabulary of claims
\* the request presented the configured token (stated from the inputs)
Authentic(r) ==
  /\ env_token.set /\ env_token.val # ""
  /\ r.header.present /\ r.header.credentials = env_token.val

\* the request was turned away by the security dependency
Rejected(r) == r.pc = "done" /\ r.result.kind = "http_error" /\ r.calls = <<>>

\* the rows a request's inserts created that are in the table
RowsOf(r, t) == {row \in t : row.created_at \in r.wrote}
RowsOfType(r, t, message_type) ==
  {row \in RowsOf(r, t) : row.message.type = message_type}

CallsOf(r, op) == {i \in 1..Len(r.calls) : r.calls[i].op = op}
AllCallsOk(r) == \A i \in 1..Len(r.calls) : r.calls[i].ok

\* a stored user turn of request r
IsHumanRow(row, r) ==
  /\ row.session_id = r.body.session_id
  /\ row.message.type = "human"
  /\ row.message.content = r.body.query
  /\ ~row.message.has_data

\* a stored assistant turn of request r carrying the model output
IsAiRow(row, r) ==
  /\ row.session_id = r.body.session_id
  /\ row.message.type = "ai"
  /\ row.message.content = r.model_response
  /\ row.message.has_data
  /\ row.message.data.keys = {"request_id"}
  /\ row.message.data.request_id = r.body.request_id

\* a stored apology turn of request r carrying the failure detail
IsApologyRow(row, r) ==
  /\ row.session_id = r.body.session_id
  /\ row.message.type = "ai"
  /\ row.message.content = ApologyText
  /\ row.message.has_data
  /\ row.message.data.keys = {"error", "request_id"}
  /\ Len(r.e.detail) > 0
  /\ Contains(row.message.data.error, r.e.detail)
  /\ row.message.data.request_id = r.body.request_id

\* ------------------------------------------------------------------- claims

\* C1: a request whose bearer credential is missing or is not the configured
\* token (or when no token is configured) never gets past the security
\* dependency: each of its steps leaves the table unchanged, it performs no
\* store operation and no completion call, and it ends with an HTTP error.
C1_UnauthenticatedTouchesNothing ==
  [][\A p \in Procs :
       (req'[p] # req[p] /\ ~Authentic(req'[p])) =>
         /\ table' = table
         /\ req'[p].calls = <<>> /\ req'[p].wrote = {}
         /\ req'[p].pc \in {"auth", "done"}
         /\ req'[p].pc = "done" =>
              /\ req'[p].result.kind = "http_error"
              /\ req'[p].result.status_code \in {401, 403, 500}]_vars

\* a request with a wrong token was refused while the table holds rows
C1_Witness ==
  \E p \in Procs :
    /\ req[p].pc = "done" /\ req[p].header.present
    /\ req[p].header.credentials = "bad"
    /\ req[p].result = HttpError(401)
    /\ table # {}

\* C2 as stated: every authenticated request that has returned attempted
\* exactly one `human` write and persisted exactly one `ai` message, on every
\* path through the handler.
C2_Original ==
  \A p \in Procs :
    (req[p].pc = "done" /\ Authentic(req[p]) /\ req[p].result.kind = "response") =>
      /\ Cardinality(CallsOf(req[p], "insert_human")) = 1
      /\ Cardinality(RowsOfType(req[p], table, "ai")) = 1

\* C2, amended: an authenticated request attempts the `human` write exactly
\* once, with the query as content and before the completion call, when its
\* history fetch succeeded, and never when the fetch failed; a request that
\* answers with a response body has persisted exactly one `ai` message: the
\* model text when success=true, the apology with the failure detail in
\* data.error when success=false.
C2_TurnsWritten ==
  \A p \in Procs :
    LET r == req[p]
        humans == RowsOfType(r, table, "human")
        ais == RowsOfType(r, table, "ai")
        fetched == \E i \in CallsOf(r, "select") : r.calls[i].ok
    IN  (Authentic(r) /\ r.pc \notin {"idle", "auth"}) =>
          /\ Cardinality(CallsOf(r, "insert_human")) <= 1
          /\ ~fetched => CallsOf(r, "insert_human") = {}
          /\ (fetched /\ r.pc \notin {"fetch", "store_user"}) =>
               Cardinality(CallsOf(r, "insert_human")) = 1
          /\ \A i \in CallsOf(r, "post"), j \in CallsOf(r, "insert_human") : j < i
          /\ \A row \in humans : IsHumanRow(row, r)
          /\ Cardinality(humans) =
               Cardinality({i \in CallsOf(r, "insert_human") : r.calls[i].ok})
          /\ (r.pc = "done" /\ r.result.kind = "response") =>
               /\ Cardinality(ais) = 1
               /\ \A row \in ais :
                    IF r.result.success THEN IsAiRow(row, r) ELSE IsApologyRow(row, r)
               /\ \A row \in humans, a \in ais : row.created_at < a.created_at

\* a request whose history fetch failed answered success=false: it stored the
\* apology turn and no user turn
C2_Witness ==
  \E p \in Procs :
    /\ req[p].pc = "done" /\ Authentic(req[p])
    /\ req[p].calls = <<Call("select", FALSE), Call("insert_apology", TRUE)>>
    /\ req[p].result = AgentResponse(FALSE)
    /\ RowsOfType(req[p], table, "human") = {}
    /\ Cardinality(RowsOfType(req[p], table, "ai")) = 1

\* C3 as stated: after authentication no fault makes the endpoint answer with
\* an HTTP error; it always answers a response body, with success=false
\* whenever a step failed.
C3_NeverHttpErrorAfterAuth ==
  \A p \in Procs :
    (req[p].pc = "done" /\ Authentic(req[p])) =>
      /\ req[p].result.kind = "response"
      /\ ~AllCallsOk(req[p]) => ~req[p].result.success

\* C4: a request that answered success=true has persisted exactly two rows in
\* its session, first the `human` row with the query, then the `ai` row with
\* the model output and the request_id in its data.
C4_SuccessMeansPairStored ==
  \A p \in Procs :
    LET r == req[p] IN
    (r.pc = "done" /\ r.result.kind = "response" /\ r.result.success) =>
      /\ Cardinality(r.wrote) = 2
      /\ \E h, a \in table :
           /\ RowsOf(r, table) = {h, a}
           /\ IsHumanRow(h, r)
           /\ IsAiRow(a, r)
           /\ h.created_at < a.created_at

\* a request answered success=true with model text
C4_Witness ==
  \E p \in Procs :
    /\ req[p].pc = "done" /\ req[p].result = AgentResponse(TRUE)
    /\ req[p].model_response = "m1"
    /\ Cardinality(RowsOf(req[p], table)) = 2

\* C5: when the completion call fails (network error or error status) and
\* the store accepts every write, the answer is success=false, the `ai` row
\* of the request is the apology with the failure detail in data.error and
\* the request_id in data.request_id, and no model-output `ai` write is made.
C5_CompletionFailureStored ==
  \A p \in Procs :
    LET r == req[p] IN
    (/\ r.pc = "done"
     /\ \E i \in CallsOf(r, "post") : ~r.calls[i].ok
     /\ \A i \in 1..Len(r.calls) : r.calls[i].op # "post" => r.calls[i].ok) =>
      /\ r.result = AgentResponse(FALSE)
      /\ r.e.detail \in {NetworkFault, StatusFault}
      /\ CallsOf(r, "insert_ai") = {}
      /\ Cardinality(RowsOfType(r, table, "ai")) = 1
      /\ \A row \in RowsOfType(r, table, "ai") : IsApologyRow(row, r)

\* a request whose completion call got an error status stored the apology
C5_Witness ==
  \E p \in Procs :
    /\ req[p].pc = "done"
    /\ req[p].calls = <<Call("select", TRUE), Call("insert_human", TRUE),
                        Call("post", FALSE), Call("insert_apology", TRUE)>>
    /\ req[p].e.detail = StatusFault
    /\ req[p].result = AgentResponse(FALSE)

\* C6: for every table, session and limit, the history reader returns the
\* min(limit, n) newest rows of that session and of no other, oldest first
\* (n = the number of rows of the session).
C6_HistoryNewestOldestFirst ==
  [][hist' # hist =>
       LET out == hist'.result
           mine == {row \in table : row.session_id = hist'.session_id}
           n == Cardinality(mine)
           returned == {out[i] : i \in 1..Len(out)}
       IN  /\ Len(out) = IF hist'.limit < n THEN hist'.limit ELSE n
           /\ returned \subseteq mine
           /\ \A i, j \in 1..Len(out) : i < j => out[i].created_at < out[j].created_at
           /\ \A row \in mine \ returned, k \in returned :
                row.created_at < k.created_at]_vars

\* the reader was asked for 2 rows of a session that holds 3, next to a row
\* of another session, and returned the two newest
C6_Witness ==
  LET mine == {row \in table : row.session_id = hist.session_id} IN
  /\ hist.called /\ hist.limit = 2 /\ Len(hist.result) = 2
  /\ Cardinality(mine) = 3
  /\ Cardinality(table) = 4
  /\ hist.result[1] \in mine /\ hist.result[2] \in mine
  /\ \A row \in mine : row.created_at <= hist.result[2].created_at

\* the requests that ran without any fault: every call succeeded and no
\* exception was raised
FaultFree(r) == r.pc = "done" /\ r.e = NoException /\ AllCallsOk(r)

\* C7: two authenticated requests on one session that meet no store or
\* completion fault both answer success=true, whatever the interleaving, and
\* leave four rows: each its own `human` row (its query) followed by its own
\* `ai` row (its request_id); no row is lost, shared or overwritten.
C7_ConcurrentPairsKept ==
  \A p, q \in Procs :
    (/\ p # q
     /\ FaultFree(req[p]) /\ FaultFree(req[q])
     /\ Authentic(req[p]) /\ Authentic(req[q])
     /\ req[p].body.session_id = req[q].body.session_id) =>
      /\ req[p].result = AgentResponse(TRUE)
      /\ req[q].result = AgentResponse(TRUE)
      /\ RowsOf(req[p], table) \cap RowsOf(req[q], table) = {}
      /\ Cardinality(RowsOf(req[p], table) \cup RowsOf(req[q], table)) = 4
      /\ \A r \in {req[p], req[q]} :
           \E h, a \in table :
             /\ RowsOf(r, table) = {h, a}
             /\ IsHumanRow(h, r) /\ IsAiRow(a, r)
             /\ h.created_at < a.created_at

\* two requests on one session, with different queries, both answered
\* success=true after their writes interleaved: human, human, ai, ai
C7_Witness ==
  \E p, q \in Procs :
    /\ p # q
    /\ req[p].result = AgentResponse(TRUE) /\ req[q].result = AgentResponse(TRUE)
    /\ req[p].pc = "done" /\ req[q].pc = "done"
    /\ req[p].body.session_id = req[q].body.session_id
    /\ req[p].body.query # req[q].body.query
    /\ \E hp, ap \in RowsOf(req[p], table), hq, aq \in RowsOf(req[q], table) :
         /\ hp.created_at < hq.created_at
         /\ hq.created_at < ap.created_at
         /\ ap.created_at < aq.created_at

\* C8: the same request (same request_id, session and query) submitted twice,
\* both runs succeeding, leaves two `human` rows and two `ai` rows: no write
\* is skipped because of an equal request_id or an equal earlier row.
C8_NoDeduplication ==
  \A p, q \in Procs :
    (/\ p # q
     /\ req[p].body = req[q].body
     /\ req[p].pc = "done" /\ req[q].pc = "done"
     /\ req[p].result = AgentResponse(TRUE) /\ req[q].result = AgentResponse(TRUE)) =>
      LET b == req[p].body
          humans == {row \in table : /\ row.session_id = b.session_id
                                     /\ row.message.type = "human"
                                     /\ row.message.content = b.query}
          ais == {row \in table : /\ row.session_id = b.session_id
                                  /\ row.message.type = "ai"
                                  /\ row.message.data.request_id = b.request_id}
      IN  /\ Cardinality(humans) >= 2
          /\ Cardinality(ais) >= 2
          /\ Cardinality(req[p].wrote) = 2 /\ Cardinality(req[q].wrote) = 2
          /\ req[p].wrote \cap req[q].wrote = {}

\* the same body was submitted twice, both runs answered success=true with
\* the same model text, and the table holds the four rows
C8_Witness ==
  \E p, q \in Procs :
    /\ p # q
    /\ req[p].body = req[q].body /\ req[p].body # NoBody
    /\ req[p].pc = "done" /\ req[q].pc = "done"
    /\ req[p].result = AgentResponse(TRUE) /\ req[q].result = AgentResponse(TRUE)
    /\ req[p].model_response = req[q].model_response
    /\ Cardinality(table) = 4

\* C9: verify_token lets a request pass exactly when a token is configured
\* and the presented credential equals it; with no token configured it
\* raises 500 whatever the credential, with a different credential it raises
\* 401; it changes neither the table nor the configuration.
C9_TokenVerifier ==
  [][\A p \in Procs :
       (req[p].pc = "auth" /\ req[p].header.present /\ req'[p] # req[p]) =>
         LET configured == env_token.set /\ env_token.val # ""
             equal == req[p].header.credentials = env_token.val
             passed == req'[p].pc # "done"
         IN  /\ passed <=> (configured /\ equal)
             /\ ~configured => req'[p].result = HttpError(500)
             /\ (configured /\ ~equal) => req'[p].result = HttpError(401)
             /\ passed => req'[p].result = NoResult
             /\ table' = table /\ env_token' = env_token
             /\ req'[p].calls = <<>>]_vars

\* one request passed the verifier and another was refused with 401
C9_Witness ==
  \E p, q \in Procs :
    /\ req[p].pc = "fetch" /\ req[p].header.credentials = "tok"
    /\ req[q].pc = "done" /\ req[q].header.present
    /\ req[q].result = HttpError(401)

\* C10: the calls of one request are made in program order, each after the
\* previous one completed: select, then the `human` insert, then the
\* completion call, then the `ai` insert; so the history a request holds
\* never contains a row the request itself wrote.
C10_StrictlySequential ==
  \A p \in Procs :
    LET r == req[p] IN
    /\ \A i \in 1..Len(r.calls) :
         /\ r.calls[i].op = "select" => i = 1
         /\ r.calls[i].op = "insert_human" =>
              i = 2 /\ r.calls[1] = Call("select", TRUE)
         /\ r.calls[i].op = "post" =>
              i = 3 /\ r.calls[2] = Call("insert_human", TRUE)
         /\ r.calls[i].op = "insert_ai" =>
              i = 4 /\ r.calls[3] = Call("post", TRUE)
    /\ \A i \in 1..Len(r.conversation_history) :
         r.conversation_history[i].created_at \notin r.wrote
    /\ r.pc = "store_ai" => Len(r.calls) = 3
    /\ r.pc = "call_model" => Len(r.calls) = 2
    /\ r.pc = "store_user" => Len(r.calls) = 1

\* a request holds a history with an earlier row of its session and has
\* stored its own user turn
C10_Witness ==
  \E p \in Procs :
    /\ req[p].pc = "store_ai"
    /\ Len(req[p].conversation_history) > 0
    /\ req[p].wrote # {}


\* C11 as stated: a request that entered the except block, from whichever
\* step of the try block, attempts exactly one apology write and then answers
\* success=false; when the history fetch or the user-turn write failed, it
\* made no completion call and no model-output `ai` write.
C11_FailedAnswersFalse ==
  \A p \in Procs :
    LET r == req[p] IN
    (r.pc = "done" /\ r.e # NoException) =>
      /\ Cardinality(CallsOf(r, "insert_apology")) = 1
      /\ r.result = AgentResponse(FALSE)
      /\ (\E i \in CallsOf(r, "select") \cup CallsOf(r, "insert_human") : ~r.calls[i].ok) =>
           CallsOf(r, "post") = {} /\ CallsOf(r, "insert_ai") = {}


\* C12 as stated: when the completion API answers with a success status, no
\* exception is raised whatever the shape of the answer: the request goes on
\* to the assistant-turn write with the extracted text (empty for an
\* unexpected shape) and, the store accepting the write, answers success=true
\* with an `ai` row of that content.
C12_SuccessStatusNeverRaises ==
  \A p \in Procs :
    LET r == req[p] IN
    (Len(r.calls) >= 3 /\ r.calls[3] = Call("post", TRUE)) =>
      /\ Len(r.calls) = 3 => (r.pc = "store_ai" /\ r.e = NoException)
      /\ r.model_response \in {"", "m1"}
      /\ (r.pc = "done" /\ AllCallsOk(r)) =>
           /\ r.result = AgentResponse(TRUE)
           /\ \E row \in RowsOfType(r, table, "ai") : IsAiRow(row, r)


\* the store and completion calls a request can make
Ops == {"select", "insert_human", "post", "insert_ai", "insert_apology"}

\* C13 as stated: an authenticated request that has returned attempted the
\* history read, the completion call and the user-turn write exactly once
\* each.
C13_Original ==
  \A p \in Procs :
    (req[p].pc = "done" /\ Authentic(req[p])) =>
      /\ Cardinality(CallsOf(req[p], "select")) = 1
      /\ Cardinality(CallsOf(req[p], "post")) = 1
      /\ Cardinality(CallsOf(req[p], "insert_human")) = 1

\* C13, amended: there is no retry.  An authenticated request attempts the
\* history read exactly once, and the completion call and each message write
\* (user turn, model-output turn, apology turn) at most once; a call that
\* failed is never made again: the only call after it is the one apology
\* write.
C13_NoRetry ==
  \A p \in Procs :
    LET r == req[p] IN
    (Authentic(r) /\ r.pc \notin {"idle", "auth"}) =>
      /\ \A op \in Ops : Cardinality(CallsOf(r, op)) <= 1
      /\ \A i \in 1..Len(r.calls) : r.calls[i].op \in Ops
      /\ r.pc # "fetch" => Cardinality(CallsOf(r, "select")) = 1
      /\ \A i, j \in 1..Len(r.calls) :
           (i < j /\ ~r.calls[i].ok) =>
             (j = i + 1 /\ r.calls[j].op = "insert_apology")
      /\ r.pc = "failed" => ~r.calls[Len(r.calls)].ok \/ r.e.class = "IndexError"

\* the model-output write of a request was refused and the request then
\* stored the apology: two `ai` inserts were attempted, each once
C13_Witness ==
  \E p \in Procs :
    /\ req[p].pc = "done"
    /\ req[p].calls = <<Call("select", TRUE), Call("insert_human", TRUE),
                        Call("post", TRUE), Call("insert_ai", FALSE),
                        Call("insert_apology", TRUE)>>


\* the next step of the body of request p
BodyStep(p) ==
  FetchHistory(p) \/ StoreUser(p) \/ CallModel(p) \/ StoreAi(p) \/ StoreError(p)

InBody(r) == r.pc \in {"fetch", "store_user", "call_model", "store_ai", "failed"}

\* C14 as stated: nothing excludes two requests from each other, so a
\* request inside its body can always take its next step, wherever the other
\* request stands; every interleaving that respects each request's own order
\* is therefore reachable.
C14_Original ==
  \A p \in Procs : InBody(req[p]) => ENABLED BodyStep(p)

\* C14, amended: when the endpoint is served by more than one worker process,
\* a request inside its body, with another request inside its body too, can
\* always take its next step, wherever the other request stands, so every interleaving that respects each request's
\* own order is reachable; on a single event loop the body of one request
\* runs from its first statement to its return before another body starts.
C14_NoExclusionAcrossWorkers ==
  \A p \in Procs :
    (InBody(req[p]) /\ \E q \in Procs \ {p} : InBody(req[q])) =>
      IF shared_loop
        THEN (ENABLED BodyStep(p)) <=> (\A q \in Procs \ {p} : ~req[q].running)
        ELSE ENABLED BodyStep(p)

\* request p read the history after q stored its user turn and before q
\* stored its assistant turn, then stored its own user turn, and q then
\* stored its assistant turn: the session holds human(q), human(p), ai(q),
\* and p is about to add ai(p)
C14_Witness ==
  \E p, q \in Procs :
    /\ p # q
    /\ req[p].body.session_id = req[q].body.session_id
    /\ req[p].pc = "store_ai"
    /\ req[q].pc = "done" /\ req[q].result = AgentResponse(TRUE)
    /\ \E hq \in RowsOfType(req[q], table, "human"),
          aq \in RowsOfType(req[q], table, "ai"),
          hp \in RowsOfType(req[p], table, "human") :
         /\ req[p].conversation_history = <<hq>>
         /\ hq.created_at < hp.created_at
         /\ hp.created_at < aq.created_at


\* C15 as stated: a request persists at most one `human` and at most one
\* `ai` row; when its model-output write is refused after a successful
\* completion it attempts the apology write and ends with success=false, and
\* the `ai` row it persisted, if any, is the apology.
C15_AiWriteFailureEndsFalse ==
  \A p \in Procs :
    LET r == req[p] IN
    /\ Cardinality(RowsOfType(r, table, "human")) <= 1
    /\ Cardinality(RowsOfType(r, table, "ai")) <= 1
    /\ (r.pc = "done" /\ \E i \in CallsOf(r, "insert_ai") : ~r.calls[i].ok) =>
         /\ Cardinality(CallsOf(r, "insert_apology")) = 1
         /\ r.result = AgentResponse(FALSE)
         /\ \A row \in RowsOfType(r, table, "ai") : IsApologyRow(row, r)


\* the request whose step this is has just appended a call of operation op
JustCalled(p, op) ==
  /\ Len(req'[p].calls) = Len(req[p].calls) + 1
  /\ req'[p].calls[Len(req'[p].calls)].op = op

\* C16: the store is append-only.  Every step keeps every stored message as
\* it is and adds at most one new message, filed under the session_id of the
\* request taking the step, so the messages of every other session are left
\* unchanged; a history read leaves the store unchanged.
C16_AppendOnly ==
  [][ /\ table \subseteq table'
      /\ Cardinality(table' \ table) <= 1
      /\ \A row \in table' \ table :
           \E p \in Procs :
             /\ req'[p] # req[p]
             /\ \E op \in {"insert_human", "insert_ai", "insert_apology"} :
                  JustCalled(p, op)
             /\ row.session_id = req[p].body.session_id
             /\ row.created_at \notin {old.created_at : old \in table}
      /\ \A s \in Sessions :
           (\A p \in Procs : req'[p] # req[p] => req[p].body.session_id # s) =>
             {row \in table' : row.session_id = s} = {row \in table : row.session_id = s}
      /\ \A p \in Procs : JustCalled(p, "select") => table' = table
    ]_vars

\* two requests of different sessions have each stored a message under their
\* own session, one after the other, and the later one has read its history
\* and returned
C16_Witness ==
  \E p, q \in Procs :
    /\ req[p].body.session_id # req[q].body.session_id
    /\ RowsOf(req[p], table) # {} /\ RowsOf(req[q], table) # {}
    /\ \A row \in RowsOf(req[p], table) : row.session_id = req[p].body.session_id
    /\ \A row \in RowsOf(req[q], table) : row.session_id = req[q].body.session_id
    /\ \E rp \in RowsOf(req[p], table), rq \in RowsOf(req[q], table) :
         rp.created_at < rq.created_at
    /\ CallsOf(req[q], "select") # {}
    /\ req[q].pc = "done"

====
